---- MODULE Spec2Model ----
(***************************************************************************)
(* The memory subsystem of the Minecraft AI companion.                     *)
(*                                                                         *)
(*   src/ai_memory.py  class AIMemorySystem: the record self.memory, its   *)
(*                     JSON document on disk, ingestion, context assembly, *)
(*                     consolidation through the chat-completion client,   *)
(*                     reset, export.                                      *)
(*   src/main.py       the FastAPI handlers that call it.                  *)
(*                                                                         *)
(* An event stands for the dictionary add_event builds; its id stands for  *)
(* the (timestamp, type, data) of that call, distinct for every call.      *)
(***************************************************************************)
EXTENDS Integers, Sequences, FiniteSets, TLC

VARIABLES
    client,     \* self.openai_client is set (TRUE) or None (FALSE)
    memory,     \* self.memory, or NoStore when the constructor raised
    disk,       \* the document at self.memory_file
    clock,      \* datetime.now(), as read for created_at and last_consolidation
    ret,        \* what the last public operation gave back to its caller
    ingested,   \* history: the events passed to add_event since the record was new or reset
    said,       \* history: the entries passed to add_ai_response since the record was new or reset
    diskHist,   \* history: the last document written whole, with ingested and said of its record
    faults,     \* history: how many writes of the document have failed
    task,       \* the server's request handlers: what each is and where it stands
    running     \* the handler that holds the event loop's thread, 0 when none does

vars == <<client, memory, disk, clock, ret, ingested, said, diskHist, faults, task, running>>

storeHist == <<ingested, said>>
server == <<task, running>>

-----------------------------------------------------------------------------
(* Program constants *)

ShortTermCap == 50
HistoryCap == 20
DefaultInterval == 15
DefaultEventCount == 15
DefaultRecentCount == 5
DefaultMaxFacts == 10
ConversationWindow == 5

DefaultPlayer == "Player"

\* The keys of the default long_term dictionary, in insertion order.
CategoryOrder ==
    <<"player_preferences", "building_projects", "personality_notes", "achievements">>

Categories == {CategoryOrder[i] : i \in 1..Len(CategoryOrder)}

\* Python's None, where the other values are records; a datetime.now() reading.
None == [none |-> TRUE]
Time(n) == [at |-> n]

\* No record: the constructor raised.
NoStore == [store |-> "none"]

\* player=None of get_recent_events; key_map.get finding nothing.
NonePlayer == "<None>"
NoKey == "<None>"

-----------------------------------------------------------------------------
(* Python helpers *)

Min(a, b) == IF a < b THEN a ELSE b
Max(a, b) == IF a > b THEN a ELSE b

\* s[i:] for any integer i.
PySliceFrom(s, i) ==
    LET start == IF i < 0 THEN Max(Len(s) + i, 0) ELSE Min(i, Len(s))
    IN  SubSeq(s, start + 1, Len(s))

\* s[:n] for any integer n.
PySliceTo(s, n) ==
    LET stop == IF n < 0 THEN Max(Len(s) + n, 0) ELSE Min(n, Len(s))
    IN  SubSeq(s, 1, stop)

\* a % b for a >= 0 and b # 0: the result has the sign of b.
PyMod(a, b) ==
    IF b > 0 THEN a % b
    ELSE IF a % (0 - b) = 0 THEN 0 ELSE (a % (0 - b)) + b

Elems(s) == {s[i] : i \in 1..Len(s)}

-----------------------------------------------------------------------------
(* The record and its document *)

DefaultMemory(now) ==
    [ short_term |-> <<>>,
      long_term |-> [c \in Categories |-> <<>>],
      conversation_history |-> <<>>,
      last_consolidation |-> None,
      stats |-> [total_events |-> 0, consolidations_run |-> 0, created_at |-> Time(now)] ]

\* What is at self.memory_file.
AbsentDoc == [kind |-> "absent"]
InvalidDoc == [kind |-> "invalid_json"]     \* text that json.load rejects
TornDoc == [kind |-> "torn"]                \* emptied by open(file, 'w'), then none or part of the text
NonUtf8Doc == [kind |-> "non_utf8"]         \* bytes that are not UTF-8
JsonDoc(m) == [kind |-> "json", value |-> m]

\* The encoding open(file, 'r') decodes with: the locale's preferred encoding.
Encodings == {"utf-8", "latin-1"}

\* load_memory: [raised, value].
load_memory(doc, enc, now) ==
    CASE doc.kind = "absent" -> [raised |-> FALSE, value |-> DefaultMemory(now)]
      [] doc.kind = "json" -> [raised |-> FALSE, value |-> doc.value]
      [] doc.kind = "invalid_json" -> [raised |-> FALSE, value |-> DefaultMemory(now)]
      [] doc.kind = "torn" -> [raised |-> FALSE, value |-> DefaultMemory(now)]
      [] doc.kind = "non_utf8" ->
            IF enc = "utf-8"
            THEN [raised |-> TRUE, value |-> NoStore]              \* UnicodeDecodeError is not caught
            ELSE [raised |-> FALSE, value |-> DefaultMemory(now)]  \* decoded bytewise, then JSONDecodeError

\* How one write of the document goes.
WriteOutcomes == {"ok", "open_fails", "write_fails"}

\* As if save_memory had no try/except: an OSError reaches the caller.
save_memory_propagates(m, d, w) ==
    CASE w = "ok" -> [ok |-> TRUE, raised |-> FALSE, disk |-> JsonDoc(m)]
      [] w = "open_fails" -> [ok |-> FALSE, raised |-> TRUE, disk |-> d]
      [] w = "write_fails" -> [ok |-> FALSE, raised |-> TRUE, disk |-> TornDoc]

\* save_memory: [ok, raised, disk]; every Exception is caught (74-76) and False returned.
save_memory(m, d, w) ==
    CASE w = "ok" -> [ok |-> TRUE, raised |-> FALSE, disk |-> JsonDoc(m)]
      [] w = "open_fails" -> [ok |-> FALSE, raised |-> FALSE, disk |-> d]
      [] w = "write_fails" -> [ok |-> FALSE, raised |-> FALSE, disk |-> TornDoc]

-----------------------------------------------------------------------------
(* Ingestion: add_event, add_ai_response *)

\* add_event, statement by statement: line 98, line 99, lines 102-103.
AppendEvent(m, e) == [m EXCEPT !.short_term = Append(@, e)]

\* As if the counter were derived from the window.
CountEventFromWindow(m) == [m EXCEPT !.stats.total_events = Len(m.short_term)]

CountEvent(m) == [m EXCEPT !.stats.total_events = @ + 1]

\* As if the slice were [:50].
TruncateEventsKeepsOldest(m) ==
    IF Len(m.short_term) > ShortTermCap
    THEN [m EXCEPT !.short_term = PySliceTo(@, ShortTermCap)]
    ELSE m

TruncateEvents(m) ==
    IF Len(m.short_term) > ShortTermCap
    THEN [m EXCEPT !.short_term = PySliceFrom(@, 0 - ShortTermCap)]
    ELSE m

\* The record after add_event(e), before save_memory.
add_event(m, e) == TruncateEvents(CountEvent(AppendEvent(m, e)))

\* add_ai_response, statement by statement: line 124, lines 127-128.
AppendResponse(m, r) == [m EXCEPT !.conversation_history = Append(@, r)]

\* As if the slice were [:20].
TruncateResponsesKeepsOldest(m) ==
    IF Len(m.conversation_history) > HistoryCap
    THEN [m EXCEPT !.conversation_history = PySliceTo(@, HistoryCap)]
    ELSE m

TruncateResponses(m) ==
    IF Len(m.conversation_history) > HistoryCap
    THEN [m EXCEPT !.conversation_history = PySliceFrom(@, 0 - HistoryCap)]
    ELSE m

\* The record after add_ai_response(r), before save_memory.
add_ai_response(m, r) == TruncateResponses(AppendResponse(m, r))

-----------------------------------------------------------------------------
(* Context assembly *)

\* get_recent_events(count, player); player None (or any falsy string) does not filter.
get_recent_events(m, count, player) ==
    LET IsPlayers(e) == e.player = player
        events == IF player # NonePlayer /\ player # ""
                  THEN SelectSeq(m.short_term, IsPlayers)
                  ELSE m.short_term
    IN  IF events # <<>> THEN PySliceFrom(events, 0 - count) ELSE <<>>

\* facts.extend(items) over long_term.items(), in key order.
RECURSIVE AllFacts(_, _)
AllFacts(lt, i) ==
    IF i > Len(CategoryOrder) THEN <<>>
    ELSE lt[CategoryOrder[i]] \o AllFacts(lt, i + 1)

\* As if the slice were [-max_facts:].
get_newest_long_term_facts(m, max_facts) == PySliceFrom(AllFacts(m.long_term, 1), 0 - max_facts)

get_relevant_long_term_facts(m, max_facts) == PySliceTo(AllFacts(m.long_term, 1), max_facts)

\* As if the responses were filtered by player first and the last 5 taken then.
build_ai_context_filters_first(m, player, recent_count) ==
    LET recent_events == get_recent_events(m, recent_count, player)
        long_term_facts == get_relevant_long_term_facts(m, DefaultMaxFacts)
        IsPlayers(r) == r.player = player
        recent_responses ==
            PySliceFrom(SelectSeq(m.conversation_history, IsPlayers), 0 - ConversationWindow)
    IN  (IF recent_events # <<>>
         THEN <<[line |-> "Recent events:"]>>
              \o [i \in 1..Len(recent_events) |-> [line |-> "event", of |-> recent_events[i]]]
         ELSE <<>>)
        \o (IF long_term_facts # <<>>
            THEN <<[line |-> "What I know about", player |-> player]>>
                 \o [i \in 1..Len(long_term_facts) |-> [line |-> "fact", of |-> long_term_facts[i]]]
            ELSE <<>>)
        \o (IF recent_responses # <<>>
            THEN <<[line |-> "Recent conversation:"]>>
                 \o [i \in 1..Len(recent_responses) |-> [line |-> "I said", of |-> recent_responses[i]]]
            ELSE <<>>)

\* build_ai_context: context_parts, one element per appended line.
build_ai_context(m, player, recent_count) ==
    LET recent_events == get_recent_events(m, recent_count, player)
        long_term_facts == get_relevant_long_term_facts(m, DefaultMaxFacts)
        IsPlayers(r) == r.player = player
        recent_responses ==
            SelectSeq(PySliceFrom(m.conversation_history, 0 - ConversationWindow), IsPlayers)
        EventLines ==
            IF recent_events # <<>>
            THEN <<[line |-> "Recent events:"]>>
                 \o [i \in 1..Len(recent_events) |-> [line |-> "event", of |-> recent_events[i]]]
            ELSE <<>>
        FactLines ==
            IF long_term_facts # <<>>
            THEN <<[line |-> "What I know about", player |-> player]>>
                 \o [i \in 1..Len(long_term_facts) |-> [line |-> "fact", of |-> long_term_facts[i]]]
            ELSE <<>>
        ResponseLines ==
            IF recent_responses # <<>>
            THEN <<[line |-> "Recent conversation:"]>>
                 \o [i \in 1..Len(recent_responses) |-> [line |-> "I said", of |-> recent_responses[i]]]
            ELSE <<>>
    IN  EventLines \o FactLines \o ResponseLines

-----------------------------------------------------------------------------
(* The consolidation gate *)

\* As if the test total_events > 0 were missing.
should_consolidate_any_multiple(m, event_interval) ==
    IF event_interval = 0
    THEN [raised |-> TRUE, value |-> FALSE]
    ELSE [raised |-> FALSE, value |-> PyMod(m.stats.total_events, event_interval) = 0]

\* should_consolidate: [raised, value]; total_events % 0 raises ZeroDivisionError.
should_consolidate(m, event_interval) ==
    LET total_events == m.stats.total_events
    IN  IF total_events > 0
        THEN IF event_interval = 0
             THEN [raised |-> TRUE, value |-> FALSE]
             ELSE [raised |-> FALSE, value |-> PyMod(total_events, event_interval) = 0]
        ELSE [raised |-> FALSE, value |-> FALSE]

-----------------------------------------------------------------------------
(* Consolidation *)

\* What chat.completions.create gives consolidate_memories_with_ai:
\*   [kind |-> "raises"]      the call raises (transport, API error)
\*   [kind |-> "no_content"]  choices[0].message.content is None
\*   [kind |-> "text", fence, body]  a completion text: body, wrapped as fence says
\*        fence "none"         body
\*        fence "bare"         ```\nbody\n```
\*        fence "json"         ```json\nbody\n```
\*        fence "json_inline"  ```json body```
\*        fence "other"        ```python\nbody\n```
\* A body is JSON text, given by the value json.loads reads from it, or "garbage":
\*   [t |-> "garbage"], [t |-> "array"], [t |-> "object", pairs |-> <<[key, val], ...>>]
\* a val is [t |-> "list", items |-> <<item, ...>>] or [t |-> "string"];
\* an item is [t |-> "str", text] (a JSON string) or [t |-> "num", text] (a JSON
\* number whose json.dumps is text).

\* json.loads: [raised, value].
json_loads(body) ==
    IF body.t = "garbage" THEN [raised |-> TRUE, value |-> body]
    ELSE [raised |-> FALSE, value |-> body]

\* _coerce_json (lines 261-269): strip the backticks, drop a leading "json" line, parse.
coerce_json(raw) ==
    CASE raw.fence = "none" -> json_loads(raw.body)
      [] raw.fence = "bare" -> json_loads(raw.body)
      [] raw.fence = "json" -> json_loads(raw.body)
      [] raw.fence = "json_inline" -> [raised |-> TRUE, value |-> raw.body]  \* no newline: s = ""
      [] raw.fence = "other" -> [raised |-> TRUE, value |-> raw.body]        \* the tag line stays

\* As if the lookup were key_map.get(k_model, k_model).
key_map_passes_unknown(k_model) ==
    CASE k_model = "preferences" -> "player_preferences"
      [] k_model = "projects" -> "building_projects"
      [] k_model = "personality" -> "personality_notes"
      [] k_model = "achievements" -> "achievements"
      [] OTHER -> k_model

\* key_map.get (lines 274-279).
key_map(k_model) ==
    CASE k_model = "preferences" -> "player_preferences"
      [] k_model = "projects" -> "building_projects"
      [] k_model = "personality" -> "personality_notes"
      [] k_model = "achievements" -> "achievements"
      [] OTHER -> NoKey

\* Lines 293-297: a string stays, anything else becomes its json.dumps.
ItemString(item) == item.text

\* As if existing.add(item) were missing: each item is tested against the list as it was.
RECURSIVE MergeItemsAgainst(_, _, _, _)
MergeItemsAgainst(existing, list, items, added) ==
    IF items = <<>> THEN [list |-> list, added |-> added]
    ELSE LET item == Head(items).text
         IN  IF item \notin existing
             THEN MergeItemsAgainst(existing, Append(list, item), Tail(items), added + 1)
             ELSE MergeItemsAgainst(existing, list, Tail(items), added)

MergeItemsNoRunningSet(list, items, added) == MergeItemsAgainst(Elems(list), list, items, added)

\* Lines 292-301 for one list: [list, added].
RECURSIVE MergeItems(_, _, _)
MergeItems(list, items, added) ==
    IF items = <<>> THEN [list |-> list, added |-> added]
    ELSE LET item == ItemString(Head(items))
         IN  IF item \notin Elems(list)
             THEN MergeItems(Append(list, item), Tail(items), added + 1)
             ELSE MergeItems(list, Tail(items), added)

\* Line 288: long_term.setdefault(k_mem, []).
SetDefault(lt, k_mem) ==
    IF k_mem \in DOMAIN lt THEN lt
    ELSE [c \in DOMAIN lt \cup {k_mem} |-> IF c \in DOMAIN lt THEN lt[c] ELSE <<>>]

\* Lines 281-301: the loop over ai_insights.items(): [long_term, added].
RECURSIVE MergeInsights(_, _, _)
MergeInsights(lt, pairs, added) ==
    IF pairs = <<>> THEN [long_term |-> lt, added |-> added]
    ELSE LET k_mem == key_map(Head(pairs).key)
             lst == Head(pairs).val
         IN  IF k_mem = NoKey \/ lst.t # "list"
             THEN MergeInsights(lt, Tail(pairs), added)
             ELSE LET held == SetDefault(lt, k_mem)
                      one == MergeItems(held[k_mem], lst.items, added)
                  IN  MergeInsights([held EXCEPT ![k_mem] = one.list], Tail(pairs), one.added)

\* Lines 246-271 and the .items() of line 282: the insights to merge, or the failure.
ParseReply(reply) ==
    IF reply.kind = "raises" THEN [failed |-> "collaborator", pairs |-> <<>>]
    ELSE IF reply.kind = "no_content" THEN [failed |-> "parse", pairs |-> <<>>]
    ELSE LET parsed == coerce_json(reply)
         IN  IF parsed.raised THEN [failed |-> "parse", pairs |-> <<>>]
             ELSE IF parsed.value.t # "object" THEN [failed |-> "parse", pairs |-> <<>>]
             ELSE [failed |-> "", pairs |-> parsed.value.pairs]

\* As if the stamp and the counter were set only when insights_added > 0.
MergeReplyCountsNewOnly(m, pairs, now) ==
    LET merged == MergeInsights(m.long_term, pairs, 0)
    IN  IF merged.added = 0 THEN m
        ELSE [m EXCEPT !.long_term = merged.long_term,
                       !.last_consolidation = Time(now),
                       !.stats.consolidations_run = @ + 1]

\* Lines 281-304: the record after a reply that parsed, before save_memory.
MergeReply(m, pairs, now) ==
    LET merged == MergeInsights(m.long_term, pairs, 0)
    IN  [m EXCEPT !.long_term = merged.long_term,
                  !.last_consolidation = Time(now),
                  !.stats.consolidations_run = @ + 1]

\* As if last_consolidation were stamped before the collaborator is called.
consolidate_stamps_first(m, hasClient, event_count, reply, now) ==
    IF ~hasClient THEN [ok |-> FALSE, why |-> "no_client", memory |-> m, saves |-> FALSE]
    ELSE IF get_recent_events(m, event_count, NonePlayer) = <<>>
    THEN [ok |-> FALSE, why |-> "no_events", memory |-> m, saves |-> FALSE]
    ELSE LET parsed == ParseReply(reply)
             stamped == [m EXCEPT !.last_consolidation = Time(now)]
         IN  IF parsed.failed # ""
             THEN [ok |-> FALSE, why |-> parsed.failed, memory |-> stamped, saves |-> FALSE]
             ELSE [ok |-> TRUE, why |-> "",
                   memory |-> MergeReply(m, parsed.pairs, now), saves |-> TRUE]

\* consolidate_memories_with_ai: [ok, why, memory, saves]; saves: save_memory is reached.
consolidate_memories_with_ai(m, hasClient, event_count, reply, now) ==
    IF ~hasClient THEN [ok |-> FALSE, why |-> "no_client", memory |-> m, saves |-> FALSE]
    ELSE IF get_recent_events(m, event_count, NonePlayer) = <<>>
    THEN [ok |-> FALSE, why |-> "no_events", memory |-> m, saves |-> FALSE]
    ELSE LET parsed == ParseReply(reply)
         IN  IF parsed.failed # ""
             THEN [ok |-> FALSE, why |-> parsed.failed, memory |-> m, saves |-> FALSE]
             ELSE [ok |-> TRUE, why |-> "",
                   memory |-> MergeReply(m, parsed.pairs, now), saves |-> TRUE]

-----------------------------------------------------------------------------
(* Maintenance *)

\* get_memory_stats
get_memory_stats(m) ==
    [ short_term_events |-> Len(m.short_term),
      long_term_facts |-> [c \in Categories |-> Len(m.long_term[c])],
      conversation_history |-> Len(m.conversation_history),
      last_consolidation |-> m.last_consolidation,
      total_events_processed |-> m.stats.total_events,
      consolidations_run |-> m.stats.consolidations_run,
      created_at |-> m.stats.created_at ]

\* As if the test of keep_long_term were missing.
clear_memory_wipes_all(m, keep_long_term) ==
    [m EXCEPT !.short_term = <<>>, !.conversation_history = <<>>,
              !.long_term = [c \in Categories |-> <<>>],
              !.last_consolidation = None,
              !.stats.consolidations_run = 0,
              !.stats.total_events = 0]

\* As if line 355 were missing.
clear_memory_keeps_total(m, keep_long_term) ==
    LET short == [m EXCEPT !.short_term = <<>>, !.conversation_history = <<>>]
    IN  IF keep_long_term THEN short
        ELSE [short EXCEPT !.long_term = [c \in Categories |-> <<>>],
                           !.last_consolidation = None,
                           !.stats.consolidations_run = 0]

\* As if line 352 were missing.
clear_memory_keeps_stamp(m, keep_long_term) ==
    LET short == [m EXCEPT !.short_term = <<>>, !.conversation_history = <<>>]
        long == IF keep_long_term THEN short
                ELSE [short EXCEPT !.long_term = [c \in Categories |-> <<>>],
                                   !.stats.consolidations_run = 0]
    IN  [long EXCEPT !.stats.total_events = 0]

\* As if lines 352-353 were missing.
clear_memory_keeps_counters(m, keep_long_term) ==
    LET short == [m EXCEPT !.short_term = <<>>, !.conversation_history = <<>>]
        long == IF keep_long_term THEN short
                ELSE [short EXCEPT !.long_term = [c \in Categories |-> <<>>]]
    IN  [long EXCEPT !.stats.total_events = 0]

\* clear_memory: the record before save_memory.
clear_memory(m, keep_long_term) ==
    LET short == [m EXCEPT !.short_term = <<>>, !.conversation_history = <<>>]
        long == IF keep_long_term THEN short
                ELSE [short EXCEPT !.long_term = [c \in Categories |-> <<>>],
                                   !.last_consolidation = None,
                                   !.stats.consolidations_run = 0]
    IN  [long EXCEPT !.stats.total_events = 0]

-----------------------------------------------------------------------------
(* Inputs *)

Players == {DefaultPlayer, "Alice"}

Fact1 == [t |-> "str", text |-> "likes sand"]
Fact2 == [t |-> "str", text |-> "7"]
Fact3 == [t |-> "num", text |-> "7"]

List(items) == [t |-> "list", items |-> items]
Object(pairs) == [t |-> "object", pairs |-> pairs]
Text(fence, body) == [kind |-> "text", fence |-> fence, body |-> body]

\* One fact twice under a mapped key, with an unmapped key and a value that is no list.
BodyRepeats ==
    Object(<< [key |-> "preferences", val |-> List(<<Fact1, Fact1>>)],
              [key |-> "mood", val |-> List(<<Fact2>>)],
              [key |-> "projects", val |-> [t |-> "string"]] >>)

\* A string and a number with the same text, and a fact already sent under another key.
BodyMixed ==
    Object(<< [key |-> "achievements", val |-> List(<<Fact2, Fact3>>)],
              [key |-> "preferences", val |-> List(<<Fact2, Fact1>>)] >>)

BodyEmpty == Object(<<>>)

Replies ==
    { [kind |-> "raises"],
      [kind |-> "no_content"],
      Text("none", [t |-> "garbage"]),
      Text("none", [t |-> "array"]),
      Text("other", BodyRepeats),
      Text("json_inline", BodyRepeats),
      Text("none", BodyRepeats),
      Text("json", BodyMixed),
      Text("bare", BodyEmpty) }

InitialDocs == {AbsentDoc, InvalidDoc, NonUtf8Doc}

NoHistory == [ingested |-> <<>>, said |-> <<>>]

NoTasks == <<>>

-----------------------------------------------------------------------------
(* The store's public operations, one call each *)

\* write: how the operation's save_memory went, "none" when it reached none.
Result(op, raised, value, write) ==
    [op |-> op, raised |-> raised, value |-> value, write |-> write]

\* save_memory as the last statement of an operation.
Save(m, w, hist) ==
    /\ disk' = save_memory(m, disk, w).disk
    /\ diskHist' = IF w = "ok" THEN [doc |-> JsonDoc(m), record |-> hist] ELSE diskHist
    /\ faults' = IF w = "ok" THEN faults ELSE faults + 1

\* AIMemorySystem(memory_file, openai_client) in a new process, on the document as it is.
Open(enc) ==
    LET loaded == load_memory(disk, enc, clock + 1)
    IN  /\ memory' = loaded.value
        /\ clock' = IF disk.kind = "json" THEN clock ELSE clock + 1
        /\ ret' = Result("open", loaded.raised, None, "none")
        /\ ingested' = IF disk.kind = "json" THEN diskHist.record.ingested ELSE <<>>
        /\ said' = IF disk.kind = "json" THEN diskHist.record.said ELSE <<>>
        /\ UNCHANGED <<client, disk, diskHist, faults, server>>

AddEvent(player, w) ==
    /\ memory # NoStore
    /\ LET event == [id |-> Len(ingested) + 1, player |-> player]
           m == add_event(memory, event)
       IN  /\ memory' = m
           /\ ingested' = Append(ingested, event)
           /\ Save(m, w, [ingested |-> ingested', said |-> said])
           /\ ret' = Result("add_event", save_memory(m, disk, w).raised, event, w)
    /\ UNCHANGED <<client, clock, said, server>>

AddResponse(player, w) ==
    /\ memory # NoStore
    /\ LET ai_entry == [id |-> Len(said) + 1, player |-> player]
           m == add_ai_response(memory, ai_entry)
       IN  /\ memory' = m
           /\ said' = Append(said, ai_entry)
           /\ Save(m, w, [ingested |-> ingested, said |-> said'])
           /\ ret' = Result("add_response", save_memory(m, disk, w).raised, None, w)
    /\ UNCHANGED <<client, clock, ingested, server>>

BuildContext(player, recent_count) ==
    /\ memory # NoStore
    /\ ret' = Result("build_context", FALSE,
                     [player |-> player, recent_count |-> recent_count,
                      lines |-> build_ai_context(memory, player, recent_count)], "none")
    /\ UNCHANGED <<client, memory, disk, clock, storeHist, diskHist, faults, server>>

\* get_recent_events as the server calls it (main.py 229-232).
RecentEvents(count, player) ==
    /\ memory # NoStore
    /\ ret' = Result("recent_events", FALSE,
                     [player |-> player, count |-> count,
                      events |-> get_recent_events(memory, count, player)], "none")
    /\ UNCHANGED <<client, memory, disk, clock, storeHist, diskHist, faults, server>>

ShouldConsolidate(event_interval) ==
    /\ memory # NoStore
    /\ LET r == should_consolidate(memory, event_interval)
       IN  ret' = Result("should_consolidate", r.raised, [interval |-> event_interval, is |-> r.value], "none")
    /\ UNCHANGED <<client, memory, disk, clock, storeHist, diskHist, faults, server>>

Consolidate(event_count, reply, w) ==
    /\ memory # NoStore
    /\ LET r == consolidate_memories_with_ai(memory, client, event_count, reply, clock + 1)
       IN  /\ memory' = r.memory
           /\ clock' = IF r.ok THEN clock + 1 ELSE clock
           /\ IF r.saves
              THEN Save(r.memory, w, [ingested |-> ingested, said |-> said])
              ELSE UNCHANGED <<disk, diskHist, faults>>
           /\ LET escaped == r.saves /\ save_memory(r.memory, disk, w).raised   \* caught at 309
              IN  ret' = Result("consolidate", FALSE,
                                [ok |-> r.ok /\ ~escaped,
                                 why |-> IF escaped THEN "save" ELSE r.why,
                                 reply |-> reply, event_count |-> event_count],
                                IF r.saves THEN w ELSE "none")
    /\ UNCHANGED <<client, storeHist, server>>

Stats ==
    /\ memory # NoStore
    /\ ret' = Result("stats", FALSE, get_memory_stats(memory), "none")
    /\ UNCHANGED <<client, memory, disk, clock, storeHist, diskHist, faults, server>>

Reset(keep_long_term, w) ==
    /\ memory # NoStore
    /\ LET m == clear_memory(memory, keep_long_term)
       IN  /\ memory' = m
           /\ Save(m, w, NoHistory)
           /\ ret' = Result("reset", save_memory(m, disk, w).raised,
                            [keep_long_term |-> keep_long_term], w)
    /\ ingested' = <<>>
    /\ said' = <<>>
    /\ UNCHANGED <<client, clock, server>>

\* export_memory: the alternate file is written like the document; only the result is kept.
Export(w) ==
    /\ memory # NoStore
    /\ ret' = Result("export", FALSE, w = "ok", "none")
    /\ UNCHANGED <<client, memory, disk, clock, storeHist, diskHist, faults, server>>

-----------------------------------------------------------------------------
(* Spec: the store driven call by call, by any caller in any order, on storage *)
(* that may fail and across restarts of the process                            *)

MaxEvents == 2
MaxResponses == 1
MaxClock == 2
MaxFaults == 1

Intervals == {0, DefaultInterval}

Writes(maxFaults) == IF faults < maxFaults THEN WriteOutcomes ELSE {"ok"}

Init ==
    /\ client \in BOOLEAN
    /\ disk \in InitialDocs
    /\ \E enc \in Encodings :
          LET loaded == load_memory(disk, enc, 0)
          IN  /\ memory = loaded.value
              /\ ret = Result("open", loaded.raised, None, "none")
    /\ clock = 0
    /\ ingested = <<>>
    /\ said = <<>>
    /\ diskHist = [doc |-> disk, record |-> NoHistory]
    /\ faults = 0
    /\ task = NoTasks
    /\ running = 0

Next ==
    \/ \E enc \in Encodings : clock < MaxClock /\ Open(enc)
    \/ \E w \in Writes(MaxFaults) : Len(ingested) < MaxEvents /\ AddEvent(DefaultPlayer, w)
    \/ \E w \in Writes(MaxFaults) : Len(said) < MaxResponses /\ AddResponse(DefaultPlayer, w)
    \/ \E i \in Intervals : ShouldConsolidate(i)
    \/ \E r \in Replies, w \in Writes(MaxFaults) :
          clock < MaxClock /\ Consolidate(DefaultEventCount, r, w)
    \/ \E k \in BOOLEAN, w \in Writes(MaxFaults) : Reset(k, w)

Spec == Init /\ [][Next]_vars

-----------------------------------------------------------------------------
(* SpecIngest: a fresh store on sound storage, driven past both capacities *)

MaxIngest == 52
MaxSaid == 22
MaxRuns == 1

\* Every event, the default and every second default interval, and none allowed.
GateIntervals == Intervals \cup {1, 2 * DefaultInterval}

InitFresh ==
    /\ client \in BOOLEAN
    /\ disk = AbsentDoc
    /\ memory = DefaultMemory(0)
    /\ ret = Result("open", FALSE, None, "none")
    /\ clock = 0
    /\ ingested = <<>>
    /\ said = <<>>
    /\ diskHist = [doc |-> disk, record |-> NoHistory]
    /\ faults = 0
    /\ task = NoTasks
    /\ running = 0

NextIngest ==
    \/ Len(ingested) < MaxIngest /\ AddEvent(DefaultPlayer, "ok")
    \/ Len(said) < MaxSaid /\ AddResponse(DefaultPlayer, "ok")
    \/ BuildContext(DefaultPlayer, DefaultRecentCount)
    \/ \E i \in GateIntervals : ShouldConsolidate(i)
    \/ \E r \in {[kind |-> "raises"], Text("none", BodyRepeats)} :
          clock < MaxRuns /\ Consolidate(DefaultEventCount, r, "ok")
    \/ Stats
    \/ \E k \in BOOLEAN : Reset(k, "ok")
    \/ \E w \in WriteOutcomes : Export(w)

SpecIngest == InitFresh /\ [][NextIngest]_vars

-----------------------------------------------------------------------------
(* SpecServer: the FastAPI application of main.py on one store.  Every route *)
(* is an async def whose body calls the store and the blocking OpenAI client *)
(* directly, so a handler keeps the event loop's thread from the statement   *)
(* after `await request.json()` until it returns.                            *)

MaxRequests == 3

RequestKinds == {"event", "consolidate", "clear"}

\* The events of n earlier add_event calls, and the record their document holds:
\* every call appended (98), counted (99) and kept the newest ShortTermCap (102-103).
EventsTo(n) == [i \in 1..n |-> [id |-> i, player |-> DefaultPlayer]]

After(n) ==
    [DefaultMemory(0) EXCEPT !.short_term = PySliceFrom(EventsTo(n), 0 - Min(n, ShortTermCap)),
                             !.stats.total_events = n]

\* Fresh; one event short of the gate; a full window one event short of the gate.
Preloads == {0, DefaultInterval - 1, 4 * DefaultInterval - 1}

\* Where a handler stands.  "ready": the request is in, its coroutine not yet resumed.
\* during (history): a handler held the thread when the request came in.
NewTask(kind) ==
    [kind |-> kind, pc |-> "ready", player |-> DefaultPlayer, n |-> 0, seq |-> <<>>,
     pairs |-> <<>>, during |-> running # 0]

\* As if the routes were plain def functions, run on the thread pool.
YieldsAnywhere(pc) == TRUE

\* The control points at which a handler gives the event loop back: only its return.
Yields(pc) == pc = "done"

\* Handler i may take its next step.
CanRun(i) == task[i].pc # "done" /\ running \in {0, i}

\* Handler i moves to pc with the locals of t.
Goto(i, t, pc) ==
    /\ task' = [task EXCEPT ![i] = [t EXCEPT !.pc = pc]]
    /\ running' = IF Yields(pc) THEN 0 ELSE i

Arrive(kind) ==
    /\ task' = Append(task, NewTask(kind))
    /\ UNCHANGED <<client, memory, disk, clock, ret, storeHist, diskHist, faults, running>>

\* main.py 197-206, 235-237, 241-243: the coroutine is resumed and enters the store.
Resume(i) ==
    /\ CanRun(i) /\ task[i].pc = "ready"
    /\ Goto(i, task[i], CASE task[i].kind = "event" -> "append"
                          [] task[i].kind = "consolidate" -> "cons_check"
                          [] task[i].kind = "clear" -> "clear")
    /\ UNCHANGED <<client, memory, disk, clock, ret, storeHist, diskHist, faults>>

\* ai_memory.py 98
StepAppend(i) ==
    /\ CanRun(i) /\ task[i].pc = "append"
    /\ LET event == [id |-> Len(ingested) + 1, player |-> task[i].player]
       IN  /\ memory' = AppendEvent(memory, event)
           /\ ingested' = Append(ingested, event)
    /\ Goto(i, task[i], "count_load")
    /\ UNCHANGED <<client, disk, clock, ret, said, diskHist, faults>>

\* ai_memory.py 99, the read of total_events
StepCountLoad(i) ==
    /\ CanRun(i) /\ task[i].pc = "count_load"
    /\ Goto(i, [task[i] EXCEPT !.n = memory.stats.total_events], "count_store")
    /\ UNCHANGED <<client, memory, disk, clock, ret, storeHist, diskHist, faults>>

\* ai_memory.py 99, the store of total_events + 1
StepCountStore(i) ==
    /\ CanRun(i) /\ task[i].pc = "count_store"
    /\ memory' = [memory EXCEPT !.stats.total_events = task[i].n + 1]
    /\ Goto(i, task[i], "trunc_load")
    /\ UNCHANGED <<client, disk, clock, ret, storeHist, diskHist, faults>>

\* ai_memory.py 102-103, the test and the slice
StepTruncLoad(i) ==
    /\ CanRun(i) /\ task[i].pc = "trunc_load"
    /\ IF Len(memory.short_term) > ShortTermCap
       THEN Goto(i, [task[i] EXCEPT !.seq = PySliceFrom(memory.short_term, 0 - ShortTermCap)],
                 "trunc_store")
       ELSE Goto(i, task[i], "save")
    /\ UNCHANGED <<client, memory, disk, clock, ret, storeHist, diskHist, faults>>

\* ai_memory.py 103, the assignment
StepTruncStore(i) ==
    /\ CanRun(i) /\ task[i].pc = "trunc_store"
    /\ memory' = [memory EXCEPT !.short_term = task[i].seq]
    /\ Goto(i, task[i], "save")
    /\ UNCHANGED <<client, disk, clock, ret, storeHist, diskHist, faults>>

\* ai_memory.py 105, then main.py 60-77 or 116-151: the reply is asked for
StepSave(i) ==
    /\ CanRun(i) /\ task[i].pc = "save"
    /\ Save(memory, "ok", [ingested |-> ingested, said |-> said])
    /\ Goto(i, task[i], "reply_wait")
    /\ UNCHANGED <<client, memory, clock, ret, storeHist>>

\* main.py 79-90, 153-174: a reply to remember, or none (an error, a dull event)
StepReply(i, remember) ==
    /\ CanRun(i) /\ task[i].pc = "reply_wait"
    /\ Goto(i, task[i], IF remember THEN "resp_append" ELSE "gate")
    /\ UNCHANGED <<client, memory, disk, clock, ret, storeHist, diskHist, faults>>

\* ai_memory.py 124
StepRespAppend(i) ==
    /\ CanRun(i) /\ task[i].pc = "resp_append"
    /\ LET ai_entry == [id |-> Len(said) + 1, player |-> task[i].player]
       IN  /\ memory' = AppendResponse(memory, ai_entry)
           /\ said' = Append(said, ai_entry)
    /\ Goto(i, task[i], "resp_save")
    /\ UNCHANGED <<client, disk, clock, ret, ingested, diskHist, faults>>

\* ai_memory.py 127-130
StepRespSave(i) ==
    /\ CanRun(i) /\ task[i].pc = "resp_save"
    /\ memory' = TruncateResponses(memory)
    /\ Save(memory', "ok", [ingested |-> ingested, said |-> said])
    /\ Goto(i, task[i], "gate")
    /\ UNCHANGED <<client, clock, ret, storeHist>>

\* main.py 209-210
StepGate(i) ==
    /\ CanRun(i) /\ task[i].pc = "gate"
    /\ Goto(i, task[i], IF should_consolidate(memory, DefaultInterval).value
                        THEN "cons_check" ELSE "done")
    /\ UNCHANGED <<client, memory, disk, clock, ret, storeHist, diskHist, faults>>

\* ai_memory.py 220-257: the two early returns, else the request to the collaborator is sent
StepConsCheck(i) ==
    /\ CanRun(i) /\ task[i].pc = "cons_check"
    /\ Goto(i, task[i],
            IF ~client \/ get_recent_events(memory, DefaultEventCount, NonePlayer) = <<>>
            THEN "done" ELSE "cons_wait")
    /\ UNCHANGED <<client, memory, disk, clock, ret, storeHist, diskHist, faults>>

\* ai_memory.py 248-271: the collaborator answers
StepConsReply(i, reply) ==
    /\ CanRun(i) /\ task[i].pc = "cons_wait"
    /\ LET parsed == ParseReply(reply)
       IN  IF parsed.failed # ""
           THEN Goto(i, task[i], "done")
           ELSE Goto(i, [task[i] EXCEPT !.pairs = parsed.pairs], "cons_merge")
    /\ UNCHANGED <<client, memory, disk, clock, ret, storeHist, diskHist, faults>>

\* ai_memory.py 281-304
StepConsMerge(i) ==
    /\ CanRun(i) /\ task[i].pc = "cons_merge"
    /\ memory' = MergeReply(memory, task[i].pairs, clock + 1)
    /\ clock' = clock + 1
    /\ Goto(i, task[i], "cons_save")
    /\ UNCHANGED <<client, disk, ret, storeHist, diskHist, faults>>

\* ai_memory.py 305-307
StepConsSave(i) ==
    /\ CanRun(i) /\ task[i].pc = "cons_save"
    /\ Save(memory, "ok", [ingested |-> ingested, said |-> said])
    /\ Goto(i, task[i], "done")
    /\ UNCHANGED <<client, memory, clock, ret, storeHist>>

\* main.py 241-243 with ai_memory.py 342-356
StepClear(i) ==
    /\ CanRun(i) /\ task[i].pc = "clear"
    /\ memory' = clear_memory(memory, TRUE)
    /\ ingested' = <<>>
    /\ said' = <<>>
    /\ Save(memory', "ok", NoHistory)
    /\ Goto(i, task[i], "done")
    /\ UNCHANGED <<client, clock, ret>>

InitServer ==
    /\ client = TRUE
    /\ \E n \in Preloads :
          /\ memory = After(n)
          /\ ingested = EventsTo(n)
    /\ disk = JsonDoc(memory)
    /\ ret = Result("open", FALSE, None, "none")
    /\ clock = 0
    /\ said = <<>>
    /\ diskHist = [doc |-> disk, record |-> [ingested |-> ingested, said |-> said]]
    /\ faults = 0
    /\ task = NoTasks
    /\ running = 0

NextServer ==
    \/ \E k \in RequestKinds : Len(task) < MaxRequests /\ Arrive(k)
    \/ \E i \in DOMAIN task : Resume(i)
    \/ \E i \in DOMAIN task : StepAppend(i)
    \/ \E i \in DOMAIN task : StepCountLoad(i)
    \/ \E i \in DOMAIN task : StepCountStore(i)
    \/ \E i \in DOMAIN task : StepTruncLoad(i)
    \/ \E i \in DOMAIN task : StepTruncStore(i)
    \/ \E i \in DOMAIN task : StepSave(i)
    \/ \E i \in DOMAIN task, remember \in BOOLEAN : StepReply(i, remember)
    \/ \E i \in DOMAIN task : StepRespAppend(i)
    \/ \E i \in DOMAIN task : StepRespSave(i)
    \/ \E i \in DOMAIN task : StepGate(i)
    \/ \E i \in DOMAIN task : StepConsCheck(i)
    \/ \E i \in DOMAIN task, r \in {[kind |-> "raises"], Text("none", BodyRepeats)} :
          StepConsReply(i, r)
    \/ \E i \in DOMAIN task : StepConsMerge(i)
    \/ \E i \in DOMAIN task : StepConsSave(i)
    \/ \E i \in DOMAIN task : StepClear(i)

SpecServer == InitServer /\ [][NextServer]_vars

-----------------------------------------------------------------------------
(* SpecFaults: one run of the process on storage that fails, from a fresh record *)
(* or from a document whose two windows are full                               *)

MaxLate == 2

\* The entries of k earlier add_ai_response calls.
SaidTo(k) == [i \in 1..k |-> [id |-> i, player |-> DefaultPlayer]]

\* The record after n add_event and k add_ai_response calls (98-103, 124-128).
Loaded(n, k) ==
    [After(n) EXCEPT !.conversation_history = PySliceFrom(SaidTo(k), 0 - Min(k, HistoryCap))]

\* How many of the calls in s were made after a full window of cap was loaded.
Late(s, cap) == IF Len(s) >= cap THEN Len(s) - cap ELSE Len(s)

InitFaults ==
    /\ client = TRUE
    /\ \E full \in BOOLEAN :
          /\ ingested = IF full THEN EventsTo(ShortTermCap) ELSE <<>>
          /\ said = IF full THEN SaidTo(HistoryCap) ELSE <<>>
    /\ memory = Loaded(Len(ingested), Len(said))
    /\ disk = JsonDoc(memory)
    /\ ret = Result("open", FALSE, None, "none")
    /\ clock = 0
    /\ diskHist = [doc |-> disk, record |-> [ingested |-> ingested, said |-> said]]
    /\ faults = 0
    /\ task = NoTasks
    /\ running = 0

NextFaults ==
    \/ \E w \in Writes(MaxFaults) :
          Late(ingested, ShortTermCap) < MaxLate /\ AddEvent(DefaultPlayer, w)
    \/ \E w \in Writes(MaxFaults) :
          Late(said, HistoryCap) < MaxLate /\ AddResponse(DefaultPlayer, w)
    \/ \E r \in {[kind |-> "raises"], Text("none", BodyRepeats)}, w \in Writes(MaxFaults) :
          clock < MaxRuns /\ Consolidate(DefaultEventCount, r, w)
    \/ \E k \in BOOLEAN, w \in Writes(MaxFaults) : Reset(k, w)
    \/ Stats

SpecFaults == InitFaults /\ [][NextFaults]_vars

-----------------------------------------------------------------------------
(* SpecEvents: the events of several players, read back by player and by count *)

MaxSeen == 3

\* The player of a request body (main.py 53, 95): any string, the empty one too.
EventPlayers == {"Alice", "Bob", ""}

\* None, one, and the default number of events asked for.
Counts == {0, 1, DefaultRecentCount}

InitEvents ==
    /\ client = TRUE
    /\ disk = AbsentDoc
    /\ memory = DefaultMemory(0)
    /\ ret = Result("open", FALSE, None, "none")
    /\ clock = 0
    /\ ingested = <<>>
    /\ said = <<>>
    /\ diskHist = [doc |-> disk, record |-> NoHistory]
    /\ faults = 0
    /\ task = NoTasks
    /\ running = 0

NextEvents ==
    \/ \E p \in EventPlayers : Len(ingested) < MaxSeen /\ AddEvent(p, "ok")
    \/ \E p \in EventPlayers, n \in Counts : BuildContext(p, n)
    \/ \E p \in EventPlayers \cup {NonePlayer}, n \in Counts : RecentEvents(n, p)
    \/ \E n \in Counts : clock < MaxRuns /\ Consolidate(n, Text("none", BodyRepeats), "ok")

SpecEvents == InitEvents /\ [][NextEvents]_vars

-----------------------------------------------------------------------------
(* SpecTalk: the responses given to two players and more facts than a context *)
(* shows, read back by build_ai_context                                       *)

MaxTalk == 6

TalkPlayers == {"Alice", "Bob"}

\* A list of JSON strings.
Strings(s) == [i \in 1..Len(s) |-> [t |-> "str", text |-> s[i]]]

\* Six preferences, then six achievements: more than DefaultMaxFacts in one reply.
BodyMany ==
    Object(<< [key |-> "preferences",
               val |-> List(Strings(<<"p1", "p2", "p3", "p4", "p5", "p6">>))],
              [key |-> "achievements",
               val |-> List(Strings(<<"a1", "a2", "a3", "a4", "a5", "a6">>))] >>)

\* One personality note.
BodyNote == Object(<< [key |-> "personality", val |-> List(Strings(<<"n1">>))] >>)

InitTalk ==
    /\ client = TRUE
    /\ ingested = EventsTo(1)
    /\ said = <<>>
    /\ memory = Loaded(Len(ingested), Len(said))
    /\ disk = JsonDoc(memory)
    /\ ret = Result("open", FALSE, None, "none")
    /\ clock = 0
    /\ diskHist = [doc |-> disk, record |-> [ingested |-> ingested, said |-> said]]
    /\ faults = 0
    /\ task = NoTasks
    /\ running = 0

NextTalk ==
    \/ \E p \in TalkPlayers : Len(said) < MaxTalk /\ AddResponse(p, "ok")
    \/ \E r \in {Text("none", BodyMany), Text("json", BodyNote)} :
          clock < MaxClock /\ Consolidate(DefaultEventCount, r, "ok")
    \/ \E p \in TalkPlayers : BuildContext(p, DefaultRecentCount)

SpecTalk == InitTalk /\ [][NextTalk]_vars

-----------------------------------------------------------------------------
(* Properties *)

\* The most recent min(Len(s), cap) elements of s, in order.
Window(s, cap) == SubSeq(s, Len(s) - Min(Len(s), cap) + 1, Len(s))

NoDuplicates(s) == \A i, j \in 1..Len(s) : s[i] = s[j] => i = j

\* C1: after every call, short_term holds at most 50 events and is exactly the
\* most recent min(N, 50) of the N events ingested, in call order.
C1_ShortTermIsRecentWindow ==
    /\ Len(memory.short_term) <= ShortTermCap
    /\ Len(memory.short_term) = Min(Len(ingested), ShortTermCap)
    /\ memory.short_term = Window(ingested, ShortTermCap)

\* add_event has just returned from its 52nd call: the two oldest events are gone.
C1_Evicted ==
    /\ ret.op = "add_event"
    /\ Len(ingested) = ShortTermCap + 2
    /\ Len(memory.short_term) = ShortTermCap
    /\ memory.short_term[1].id = 3
    /\ memory.short_term[ShortTermCap] = ret.value

\* C2: total_events is the number of add_event calls since the record was new or
\* reset, past the capacity too, whatever other operations ran in between.
C2_TotalCountsCalls == memory.stats.total_events = Len(ingested)

\* 51 calls counted with the window full, after a response, a consolidation and a read.
C2_CountedPastCap ==
    /\ ret.op = "stats"
    /\ ret.value.total_events_processed = ShortTermCap + 1
    /\ Len(memory.short_term) = ShortTermCap
    /\ Len(said) > 0
    /\ memory.stats.consolidations_run > 0

\* C3: a consolidate that returns false (no collaborator, no events, the call
\* raised, the reply did not parse as an object) leaves long_term,
\* last_consolidation and consolidations_run as they were; and each of those
\* causes makes it return false.
C3_FailureChangesNothing ==
    [][ret'.op = "consolidate" =>
          /\ ( \/ ~client
               \/ memory.short_term = <<>>
               \/ ret'.value.reply.kind # "text"
               \/ ret'.value.reply.fence \in {"other", "json_inline"}
               \/ ret'.value.reply.body.t # "object" ) => ~ret'.value.ok
          /\ ~ret'.value.ok =>
                /\ memory'.long_term = memory.long_term
                /\ memory'.last_consolidation = memory.last_consolidation
                /\ memory'.stats.consolidations_run = memory.stats.consolidations_run
                /\ ret'.write = "none"]_vars

\* A reply that does not parse was refused after an earlier one had been merged.
C3_FailedAfterMerge ==
    /\ ret.op = "consolidate"
    /\ ~ret.value.ok
    /\ ret.value.why = "parse"
    /\ memory.stats.consolidations_run = 1
    /\ memory.last_consolidation # None
    /\ memory.long_term["player_preferences"] # <<>>

\* C4: no fact occurs twice in a category, and a consolidation that succeeds with
\* the reply the previous successful one had leaves long_term as it is.
C4_FactsUnique ==
    /\ [](memory # NoStore => \A c \in Categories : NoDuplicates(memory.long_term[c]))
    /\ [][(/\ ret.op = "consolidate" /\ ret'.op = "consolidate"
           /\ ret.value.ok /\ ret'.value.ok
           /\ ret'.value.reply = ret.value.reply) => memory'.long_term = memory.long_term]_vars

\* A fact sent twice in one reply and again by the next consolidation is held once.
C4_RepeatedFactHeldOnce ==
    /\ ret.op = "consolidate"
    /\ ret.value.ok
    /\ ret.value.reply = Text("json", BodyMixed)
    /\ memory.stats.consolidations_run = 2
    /\ memory.long_term["player_preferences"] = <<"likes sand", "7">>
    /\ memory.long_term["achievements"] = <<"7">>

\* No handler is part-way through.
Quiescent == \A i \in DOMAIN task : task[i].pc \in {"ready", "done"}

\* C5: once the handlers of concurrently issued requests have returned, the record
\* is what running them one after another gives: every call counted, the windows
\* holding the most recent events and responses in the order they were taken in.
C5_SerialOutcome ==
    Quiescent =>
        /\ memory.stats.total_events = Len(ingested)
        /\ memory.short_term = Window(ingested, ShortTermCap)
        /\ memory.conversation_history = Window(said, HistoryCap)

\* Two /event requests, the second issued while the first was being handled, have
\* both returned, on a window that was full.
C5_TwoIngestsReturned ==
    /\ Len(task) >= 2
    /\ task[1].kind = "event" /\ task[1].pc = "done"
    /\ task[2].kind = "event" /\ task[2].pc = "done" /\ task[2].during
    /\ Len(memory.short_term) = ShortTermCap
    /\ memory.stats.total_events = 4 * DefaultInterval + 1

InConsolidation(i) == task[i].pc \in {"cons_wait", "cons_merge", "cons_save"}

\* C6: at most one handler is between its collaborator call and the end of its merge.
C6_OneConsolidationAtATime ==
    Cardinality({i \in DOMAIN task : InConsolidation(i)}) <= 1

\* A consolidation started by the /event gate awaits its reply while a
\* /memory/consolidate request is in.
C6_SecondConsolidationHeld ==
    \E i, j \in DOMAIN task :
        /\ task[i].kind = "event" /\ task[i].pc = "cons_wait"
        /\ task[j].kind = "consolidate" /\ task[j].pc = "ready" /\ task[j].during

\* C7: while a consolidation awaits its collaborator, an /event request that is in
\* can be handled.
C7_IngestionNotBlocked ==
    \A i, j \in DOMAIN task :
        (task[i].pc = "cons_wait" /\ task[j].kind = "event" /\ task[j].pc = "ready")
            => ENABLED Resume(j)

\* C8: after a mutating operation returns, the document is the last one written
\* whole, and it is the current record when the write succeeded.
C8_DocumentIsWhole ==
    ret.write # "none" =>
        /\ disk = diskHist.doc
        /\ ret.write = "ok" => disk = JsonDoc(memory)

\* C9: opening a store on a malformed document does not raise and gives the fresh
\* default record.
C9_MalformedOpensFresh ==
    (ret.op = "open" /\ disk.kind \in {"invalid_json", "non_utf8"}) =>
        /\ ~ret.raised
        /\ memory = DefaultMemory(clock)

\* C10: no public operation lets an error escape to its caller.
C10_NoErrorEscapes == ~ret.raised

FailedWrites == {"open_fails", "write_fails"}

\* C11: when the write of the document fails, add_event, add_response, reset and
\* consolidate return normally with their whole effect on the record (the event
\* appended, counted and returned, the windows within their capacities), and the
\* record stays what the calls made so far give, so that later operations see
\* what they would have seen had the write succeeded.
C11_WriteFailureKeepsEffect ==
    /\ [](/\ memory.short_term = Window(ingested, ShortTermCap)
          /\ memory.stats.total_events = Len(ingested)
          /\ memory.conversation_history = Window(said, HistoryCap))
    /\ [][ret'.write \in FailedWrites =>
            /\ ~ret'.raised
            /\ ret'.op = "add_event" =>
                  /\ ingested' = Append(ingested, ret'.value)
                  /\ memory'.short_term[Len(memory'.short_term)] = ret'.value
                  /\ memory'.stats.total_events = memory.stats.total_events + 1
                  /\ Len(memory'.short_term) <= ShortTermCap
            /\ ret'.op = "add_response" =>
                  /\ memory'.conversation_history[Len(memory'.conversation_history)]
                        = said'[Len(said')]
                  /\ Len(memory'.conversation_history) <= HistoryCap
            /\ ret'.op = "reset" =>
                  /\ memory'.short_term = <<>>
                  /\ memory'.conversation_history = <<>>
                  /\ memory'.stats.total_events = 0
                  /\ ~ret'.value.keep_long_term =>
                        \A c \in Categories : memory'.long_term[c] = <<>>
            /\ ret'.op = "consolidate" =>
                  /\ ret'.value.ok
                  /\ memory'.stats.consolidations_run = memory.stats.consolidations_run + 1
                  /\ memory'.last_consolidation = Time(clock')]_vars

\* With the document torn by the failed write of the 51st event, a later stats call
\* reports 51 events processed and a window of 50.
C11_CountedOnTornDocument ==
    /\ ret.op = "stats"
    /\ disk = TornDoc
    /\ faults > 0
    /\ ret.value.total_events_processed = ShortTermCap + 1
    /\ ret.value.short_term_events = ShortTermCap

\* n is k times d for some k >= 1.
IsPositiveMultiple(n, d) == \E k \in 1..n : n = k * d

\* C12: for an interval of 1 or more, should_consolidate returns true exactly when
\* total_events is a positive multiple of the interval (for 15: false at 0..14,
\* true at 15, false at 16..29, true at 30), and it changes nothing in the store.
C12_GateIsPositiveMultiple ==
    /\ []((ret.op = "should_consolidate" /\ ret.value.interval >= 1) =>
            /\ ~ret.raised
            /\ ret.value.is = IsPositiveMultiple(memory.stats.total_events, ret.value.interval))
    /\ [][ret'.op = "should_consolidate" =>
            UNCHANGED <<client, memory, disk, clock, storeHist, diskHist, faults>>]_vars

\* The gate opens at the 30th event for the default interval.
C12_OpenAtThirty ==
    /\ ret.op = "should_consolidate"
    /\ ret.value.interval = DefaultInterval
    /\ ret.value.is
    /\ memory.stats.total_events = 2 * DefaultInterval

\* C13: reset(keep_long_term=true) empties short_term and conversation_history and
\* zeroes total_events; every long-term category, last_consolidation and
\* consolidations_run stay exactly as they were.
C13_ResetKeepsLongTerm ==
    [][(ret'.op = "reset" /\ ret'.value.keep_long_term) =>
          /\ memory'.short_term = <<>>
          /\ memory'.conversation_history = <<>>
          /\ memory'.stats.total_events = 0
          /\ \A c \in Categories : memory'.long_term[c] = memory.long_term[c]
          /\ memory'.last_consolidation = memory.last_consolidation
          /\ memory'.stats.consolidations_run = memory.stats.consolidations_run]_vars

\* A reset that kept the facts of an earlier consolidation; the document, whose
\* write failed at open, still shows the event that was dropped.
C13_FactsKeptEventsDropped ==
    /\ ret.op = "reset" /\ ret.value.keep_long_term
    /\ ret.write = "open_fails"
    /\ disk.kind = "json" /\ disk.value.short_term # <<>>
    /\ memory.short_term = <<>>
    /\ memory.long_term["player_preferences"] # <<>>
    /\ memory.stats.consolidations_run = 1
    /\ memory.last_consolidation # None

\* C14: reset(keep_long_term=false) leaves the fresh default record but for
\* created_at: both windows and every long-term category empty, last_consolidation
\* absent, consolidations_run and total_events 0.
C14_ResetAllIsFresh ==
    [][(ret'.op = "reset" /\ ~ret'.value.keep_long_term) =>
          /\ memory'.short_term = <<>>
          /\ memory'.conversation_history = <<>>
          /\ \A c \in Categories : memory'.long_term[c] = <<>>
          /\ memory'.last_consolidation = None
          /\ memory'.stats.consolidations_run = 0
          /\ memory'.stats.total_events = 0
          /\ memory' = [DefaultMemory(0) EXCEPT !.stats.created_at = memory.stats.created_at]]_vars

\* A full reset of a record that had facts, a consolidation and an event; the
\* document, whose write failed at open, still shows them.
C14_EverythingDropped ==
    /\ ret.op = "reset" /\ ~ret.value.keep_long_term
    /\ ret.write = "open_fails"
    /\ disk.kind = "json"
    /\ disk.value.long_term["player_preferences"] # <<>>
    /\ disk.value.stats.consolidations_run = 1
    /\ disk.value.last_consolidation # None
    /\ disk.value.stats.total_events > 0
    /\ memory.stats.consolidations_run = 0

\* The events shown by a context: the "of" of its event lines, in order.
IsEventLine(l) == l.line = "event"
ShownEvents(lines) ==
    LET shown == SelectSeq(lines, IsEventLine)
    IN  [i \in 1..Len(shown) |-> shown[i].of]

\* s holds events of player only, oldest first.
OnlyOf(s, player) ==
    /\ \A i \in 1..Len(s) : s[i].player = player
    /\ \A i, j \in 1..Len(s) : i < j => s[i].id < s[j].id

\* C15: for every player string, the empty one too, the events of
\* build_context(player, n) and of the per-player read of recent events are events
\* of that player only, oldest first.
C15_OnlyRequestedPlayer ==
    /\ ret.op = "build_context" => OnlyOf(ShownEvents(ret.value.lines), ret.value.player)
    /\ (ret.op = "recent_events" /\ ret.value.player # NonePlayer) =>
            OnlyOf(ret.value.events, ret.value.player)

\* C16: for every count of 0 or more, the events selected for a context and by the
\* read of recent events are at most count, the most recent ones; none for count 0.
C16_AtMostCountEvents ==
    /\ ret.op = "build_context" =>
            /\ Len(ShownEvents(ret.value.lines)) <= ret.value.recent_count
            /\ ret.value.recent_count = 0 => ShownEvents(ret.value.lines) = <<>>
    /\ ret.op = "recent_events" =>
            /\ Len(ret.value.events) <= ret.value.count
            /\ ret.value.count = 0 => ret.value.events = <<>>

\* C17: after every call, conversation_history holds at most 20 responses and is
\* exactly the most recent min(N, 20) of the N responses added, in call order.
C17_HistoryIsRecentWindow ==
    /\ Len(memory.conversation_history) <= HistoryCap
    /\ Len(memory.conversation_history) = Min(Len(said), HistoryCap)
    /\ \A i \in 1..Len(memory.conversation_history) :
          memory.conversation_history[i]
              = said[Len(said) - Len(memory.conversation_history) + i]

\* add_ai_response has just returned from its 22nd call: the two oldest are gone.
C17_ResponsesEvicted ==
    /\ ret.op = "add_response"
    /\ Len(said) = HistoryCap + 2
    /\ Len(memory.conversation_history) = HistoryCap
    /\ memory.conversation_history[1].id = 3
    /\ memory.conversation_history[HistoryCap].id = HistoryCap + 2

\* The responses and the facts shown by a context, in order, and its headers.
IsResponseLine(l) == l.line = "I said"
ShownResponses(lines) ==
    LET shown == SelectSeq(lines, IsResponseLine)
    IN  [i \in 1..Len(shown) |-> shown[i].of]

IsFactLine(l) == l.line = "fact"
ShownFacts(lines) ==
    LET shown == SelectSeq(lines, IsFactLine)
    IN  [i \in 1..Len(shown) |-> shown[i].of]

HasLine(lines, header) == \E i \in 1..Len(lines) : lines[i].line = header

\* C18: the conversation section of build_context(player) is the 5 most recent
\* responses over all players, then those of the player: a response of the player
\* with 5 or more later responses is not shown, and there is a header exactly when
\* something is shown.
C18_LastFiveThenPlayer ==
    ret.op = "build_context" =>
        LET shown == ShownResponses(ret.value.lines)
            first == Len(said) - Min(Len(said), ConversationWindow) + 1
            Eligible == {i \in first..Len(said) : said[i].player = ret.value.player}
        IN  /\ Len(shown) = Cardinality(Eligible)
            /\ \A i \in Eligible :
                  shown[Cardinality({j \in Eligible : j <= i})] = said[i]
            /\ \A i \in 1..Len(said) :
                  Len(said) - i >= ConversationWindow => said[i] \notin Elems(shown)
            /\ HasLine(ret.value.lines, "Recent conversation:") <=> shown # <<>>

\* Alice's first response, followed by four of Bob's and one more of hers, is not
\* in her context; her last one is.
C18_EarlierResponseLeftOut ==
    /\ ret.op = "build_context" /\ ret.value.player = "Alice"
    /\ Len(said) = ConversationWindow + 1
    /\ said[1].player = "Alice"
    /\ \A i \in 2..ConversationWindow : said[i].player = "Bob"
    /\ said[ConversationWindow + 1].player = "Alice"
    /\ ShownResponses(ret.value.lines) = <<said[ConversationWindow + 1]>>

\* C19: the facts of build_context are the first 10 of the categories' facts
\* concatenated in stored category order, each in stored order; a fact past that
\* prefix is not shown, the newest included.
C19_FirstTenFacts ==
    ret.op = "build_context" =>
        LET shown == ShownFacts(ret.value.lines)
            stored == memory.long_term["player_preferences"]
                        \o memory.long_term["building_projects"]
                        \o memory.long_term["personality_notes"]
                        \o memory.long_term["achievements"]
        IN  /\ Len(shown) = Min(Len(stored), DefaultMaxFacts)
            /\ \A i \in 1..Len(shown) : shown[i] = stored[i]
            /\ \A i \in 1..Len(stored) : i > DefaultMaxFacts => stored[i] \notin Elems(shown)
            /\ HasLine(ret.value.lines, "What I know about") <=> shown # <<>>

\* Thirteen facts stored: the note of the last consolidation is shown seventh, and
\* the last three achievements are not shown.
C19_NewestPastPrefixHidden ==
    /\ ret.op = "build_context"
    /\ memory.stats.consolidations_run = 2
    /\ Len(memory.long_term["player_preferences"]) = 6
    /\ memory.long_term["personality_notes"] = <<"n1">>
    /\ Len(memory.long_term["achievements"]) = 6
    /\ Len(ShownFacts(ret.value.lines)) = DefaultMaxFacts
    /\ ShownFacts(ret.value.lines)[7] = "n1"
    /\ "a3" \in Elems(ShownFacts(ret.value.lines))
    /\ "a4" \notin Elems(ShownFacts(ret.value.lines))

\* The reply is the text of a JSON object, bare or in a fence the code strips.
IsObjectReply(reply) ==
    /\ reply.kind = "text"
    /\ reply.fence \in {"none", "bare", "json"}
    /\ reply.body.t = "object"

\* C20: a consolidate with a collaborator, at least one short-term event and a
\* reply that parses as a JSON object returns true; every consolidate that returns
\* true stamps last_consolidation with the time of the call and adds exactly 1 to
\* consolidations_run, also when no fact is new, and leaves short_term,
\* conversation_history and total_events as they were.
C20_SuccessStampsAndCounts ==
    [][ret'.op = "consolidate" =>
          /\ (client /\ memory.short_term # <<>> /\ IsObjectReply(ret'.value.reply))
                => ret'.value.ok
          /\ ret'.value.ok =>
                /\ memory'.last_consolidation = Time(clock')
                /\ memory'.last_consolidation # memory.last_consolidation
                /\ memory'.stats.consolidations_run = memory.stats.consolidations_run + 1
                /\ memory'.short_term = memory.short_term
                /\ memory'.conversation_history = memory.conversation_history
                /\ memory'.stats.total_events = memory.stats.total_events]_vars

\* A second consolidation, whose reply was an empty object, has returned true:
\* counted and stamped, with the facts of the first one only.
C20_CountedWithoutNewFact ==
    /\ ret.op = "consolidate" /\ ret.value.ok
    /\ ret.value.reply = Text("bare", BodyEmpty)
    /\ memory.stats.consolidations_run = 2
    /\ memory.last_consolidation = Time(clock)
    /\ memory.long_term["player_preferences"] = <<"likes sand">>
    /\ memory.short_term # <<>>

\* The reply key the prompt names for a category (lines 238, 274-279).
ReplyKeyOf(c) ==
    CASE c = "player_preferences" -> "preferences"
      [] c = "building_projects" -> "projects"
      [] c = "personality_notes" -> "personality"
      [] c = "achievements" -> "achievements"

\* The texts a reply sends for category c: the items of the lists under its key.
Sent(pairs, c) ==
    UNION { {pairs[i].val.items[j].text : j \in 1..Len(pairs[i].val.items)} :
            i \in {k \in 1..Len(pairs) : pairs[k].key = ReplyKeyOf(c) /\ pairs[k].val.t = "list"} }

\* C21: the long-term categories are always exactly the four initial ones; a
\* consolidation that succeeds leaves in each category what it held and what the
\* reply's lists under the category's key sent, nothing else, so that other keys
\* and values that are no lists are skipped, and skipping them does not fail it.
C21_OnlyMappedKeysMerged ==
    /\ [](memory # NoStore => DOMAIN memory.long_term = Categories)
    /\ [][ret'.op = "consolidate" =>
            /\ (client /\ memory.short_term # <<>> /\ IsObjectReply(ret'.value.reply))
                  => ret'.value.ok
            /\ ret'.value.ok =>
                  \A c \in Categories :
                      Elems(memory'.long_term[c])
                          = Elems(memory.long_term[c]) \cup Sent(ret'.value.reply.body.pairs, c)]_vars

\* A reply with a list under "mood" and a string under "projects" was merged: the
\* preference is held, no project is, and the categories are the four.
C21_UnmappedKeySkipped ==
    /\ ret.op = "consolidate" /\ ret.value.ok
    /\ ret.value.reply = Text("none", BodyRepeats)
    /\ memory.long_term["player_preferences"] = <<"likes sand">>
    /\ memory.long_term["building_projects"] = <<>>
    /\ \A c \in Categories : "7" \notin Elems(memory.long_term[c])
    /\ DOMAIN memory.long_term = Categories

\* C22: in every state reached from a fresh store by add_event, add_response,
\* consolidate and reset, the length of short_term is min(total_events, 50).
C22_LengthFollowsTotal ==
    Len(memory.short_term) = Min(memory.stats.total_events, ShortTermCap)

\* One event past a full window, after a consolidation and with no response
\* held: 51 events processed, 50 held.
C22_OnePastFullWindow ==
    /\ ret.op = "add_event"
    /\ memory.stats.consolidations_run = 1
    /\ memory.long_term["player_preferences"] # <<>>
    /\ memory.conversation_history = <<>>
    /\ memory.stats.total_events = ShortTermCap + 1
    /\ Len(memory.short_term) = ShortTermCap

\* C23: last_consolidation is absent exactly when consolidations_run is 0, and no
\* operation on a store lowers consolidations_run but reset(keep_long_term=false).
C23_StampIffCounted ==
    /\ [](memory # NoStore =>
            (memory.last_consolidation = None <=> memory.stats.consolidations_run = 0))
    /\ [][(ret'.op # "open"
            /\ memory'.stats.consolidations_run < memory.stats.consolidations_run)
              => (ret'.op = "reset" /\ ~ret'.value.keep_long_term)]_vars

\* A store that had consolidated and was reset in full has consolidated again,
\* no write having failed: counted once, stamped with the time of the second
\* consolidation.
C23_CountedAgainAfterFullReset ==
    /\ ret.op = "consolidate" /\ ret.value.ok
    /\ faults = 0
    /\ memory.stats.consolidations_run = 1
    /\ clock = 2
    /\ memory.last_consolidation = Time(2)
    /\ memory.stats.created_at = Time(0)

=============================================================================
